---- MODULE Spec2Model ----
(***************************************************************************)
(* Model of src/process_drive_excel.py: the module-level configuration     *)
(* loading followed by main(), which locates the newest workbook in a      *)
(* Drive folder, downloads it, decrypts one sheet, encodes it as CSV and   *)
(* POSTs it to a Google Apps Script relay.                                 *)
(*                                                                         *)
(* Strings are TLA+ strings handled character by character (Len, SubSeq,   *)
(* \o).  The Japanese console messages and the Japanese file prefix and    *)
(* sheet name of the source are written here as ASCII glosses, because the *)
(* module text is ASCII; everything the program interpolates into them     *)
(* (identifiers, the key, response text) is kept verbatim.                 *)
(***************************************************************************)
EXTENDS Integers, Sequences, FiniteSets, TLC

VARIABLES pc, env, config, items, file_name, chunks, buffer, df, today,
          output_filename, csv_data_string, request, result, outcome,
          stdout, trace, exitCode

vars == <<pc, env, config, items, file_name, chunks, buffer, df, today,
          output_filename, csv_data_string, request, result, outcome,
          stdout, trace, exitCode>>

(***************************************************************************)
(* Bounds of the model.                                                    *)
(***************************************************************************)
MaxNameParts == 2
MaxRows == 2
MaxChunks == 2

(***************************************************************************)
(* String helpers: the Python str operations the program uses.             *)
(***************************************************************************)
Min(a, b) == IF a < b THEN a ELSE b

Max(a, b) == IF a > b THEN a ELSE b

\* s[:n]
SliceTo(s, n) == SubSeq(s, 1, Min(n, Len(s)))

\* s[-n:]
SliceLast(s, n) == SubSeq(s, Max(1, Len(s) - n + 1), Len(s))

\* sub in s
Contains(s, sub) ==
    \E i \in 1..(Len(s) - Len(sub) + 1) : SubSeq(s, i, i + Len(sub) - 1) = sub

EndsWith(s, p) == Len(s) >= Len(p) /\ SubSeq(s, Len(s) - Len(p) + 1, Len(s)) = p

RECURSIVE ReplaceFrom(_, _, _, _)
\* str.replace scanning from position i: every non-overlapping occurrence of
\* old, left to right, is replaced by new.
ReplaceFrom(s, old, new, i) ==
    IF i > Len(s) THEN ""
    ELSE IF i + Len(old) - 1 <= Len(s) /\ SubSeq(s, i, i + Len(old) - 1) = old
         THEN new \o ReplaceFrom(s, old, new, i + Len(old))
         ELSE SubSeq(s, i, i) \o ReplaceFrom(s, old, new, i + 1)

\* s.replace(old, new), old non-empty
Replace(s, old, new) == ReplaceFrom(s, old, new, 1)

RECURSIVE Join(_, _)
\* sep.join(parts)
Join(parts, sep) ==
    IF Len(parts) = 0 THEN ""
    ELSE IF Len(parts) = 1 THEN parts[1]
    ELSE parts[1] \o sep \o Join(Tail(parts), sep)

Digit(d) == SubSeq("0123456789", d + 1, d + 1)

\* "%02d" of a number 0..99
TwoDigits(n) == Digit(n \div 10) \o Digit(n % 10)

IsDigit(c) == Len(c) = 1 /\ Contains("0123456789", c)

(***************************************************************************)
(* JSON decoding, as json.loads / Response.json() do it, for the JSON      *)
(* subset without whitespace, escapes, signs or fractions: null, true,     *)
(* false, digit runs, "strings", [arrays] and {"objects"}.  A decoded      *)
(* value is a record [t, s, items]: t the Python type, s the text of a     *)
(* str/int, items the <<key, value>> entries of a dict or list.            *)
(***************************************************************************)
JNull == [t |-> "NoneType", s |-> "", items |-> <<>>]

JBool(b) == [t |-> "bool", s |-> b, items |-> <<>>]

JNum(x) == [t |-> "int", s |-> x, items |-> <<>>]

JStr(x) == [t |-> "str", s |-> x, items |-> <<>>]

JArr(xs) == [t |-> "list", s |-> "", items |-> xs]

JObj(xs) == [t |-> "dict", s |-> "", items |-> xs]

ParseFail == [ok |-> FALSE, val |-> JNull, next |-> 0]

Sub(s, i, j) == SubSeq(s, i, Min(j, Len(s)))

RECURSIVE ScanQuote(_, _)
\* index of the first '"' at or after j, 0 when there is none
ScanQuote(s, j) ==
    IF j > Len(s) THEN 0
    ELSE IF SubSeq(s, j, j) = "\"" THEN j
    ELSE ScanQuote(s, j + 1)

RECURSIVE ScanDigits(_, _)
\* index of the first non-digit at or after j
ScanDigits(s, j) ==
    IF j > Len(s) THEN j
    ELSE IF IsDigit(SubSeq(s, j, j)) THEN ScanDigits(s, j + 1)
    ELSE j

RECURSIVE ParseValue(_, _)
RECURSIVE ParseElems(_, _, _)
RECURSIVE ParseMembers(_, _, _)

ParseValue(s, i) ==
    LET c == Sub(s, i, i) IN
    IF i > Len(s) THEN ParseFail
    ELSE IF Sub(s, i, i + 3) = "null" THEN [ok |-> TRUE, val |-> JNull, next |-> i + 4]
    ELSE IF Sub(s, i, i + 3) = "true" THEN [ok |-> TRUE, val |-> JBool("True"), next |-> i + 4]
    ELSE IF Sub(s, i, i + 4) = "false" THEN [ok |-> TRUE, val |-> JBool("False"), next |-> i + 5]
    ELSE IF IsDigit(c)
         THEN LET j == ScanDigits(s, i)
              IN [ok |-> TRUE, val |-> JNum(SubSeq(s, i, j - 1)), next |-> j]
    ELSE IF c = "\""
         THEN LET j == ScanQuote(s, i + 1)
              IN IF j = 0 THEN ParseFail
                 ELSE [ok |-> TRUE, val |-> JStr(SubSeq(s, i + 1, j - 1)), next |-> j + 1]
    ELSE IF c = "["
         THEN IF Sub(s, i + 1, i + 1) = "]"
              THEN [ok |-> TRUE, val |-> JArr(<<>>), next |-> i + 2]
              ELSE ParseElems(s, i + 1, <<>>)
    ELSE IF c = "{"
         THEN IF Sub(s, i + 1, i + 1) = "}"
              THEN [ok |-> TRUE, val |-> JObj(<<>>), next |-> i + 2]
              ELSE ParseMembers(s, i + 1, <<>>)
    ELSE ParseFail

ParseElems(s, i, acc) ==
    LET r == ParseValue(s, i) IN
    IF ~r.ok THEN ParseFail
    ELSE LET acc2 == Append(acc, [k |-> "", v |-> r.val])
             d == Sub(s, r.next, r.next)
         IN IF d = "," THEN ParseElems(s, r.next + 1, acc2)
            ELSE IF d = "]" THEN [ok |-> TRUE, val |-> JArr(acc2), next |-> r.next + 1]
            ELSE ParseFail

ParseMembers(s, i, acc) ==
    LET k == ParseValue(s, i) IN
    IF ~k.ok \/ k.val.t # "str" \/ Sub(s, k.next, k.next) # ":" THEN ParseFail
    ELSE LET r == ParseValue(s, k.next + 1) IN
         IF ~r.ok THEN ParseFail
         ELSE LET acc2 == Append(acc, [k |-> k.val.s, v |-> r.val])
                  d == Sub(s, r.next, r.next)
              IN IF d = "," THEN ParseMembers(s, r.next + 1, acc2)
                 ELSE IF d = "}" THEN [ok |-> TRUE, val |-> JObj(acc2), next |-> r.next + 1]
                 ELSE ParseFail

\* json.loads(text): [ok |-> FALSE] stands for raising JSONDecodeError
JsonLoads(text) ==
    LET r == ParseValue(text, 1) IN
    IF r.ok /\ r.next = Len(text) + 1 THEN [ok |-> TRUE, val |-> r.val]
    ELSE [ok |-> FALSE, val |-> JNull]

\* hasattr(value, "get"): only a dict has the method .get
HasGet(v) == v.t = "dict"

RECURSIVE LookupItems(_, _, _)
LookupItems(xs, key, dflt) ==
    IF Len(xs) = 0 THEN dflt
    ELSE IF xs[Len(xs)].k = key THEN xs[Len(xs)].v
    ELSE LookupItems(SubSeq(xs, 1, Len(xs) - 1), key, dflt)

\* d.get(key) of a dict: the value of the key (the last one, when it is
\* repeated in the document), None when it is absent
DictGet(d, key) == LookupItems(d.items, key, JNull)

RECURSIVE PyRepr(_)
RECURSIVE ReprItems(_, _)
\* str()/repr() of a decoded value inside an f-string
PyRepr(v) ==
    IF v.t = "NoneType" THEN "None"
    ELSE IF v.t = "str" THEN "'" \o v.s \o "'"
    ELSE IF v.t = "list" THEN "[" \o Join(ReprItems(v.items, FALSE), ", ") \o "]"
    ELSE IF v.t = "dict" THEN "{" \o Join(ReprItems(v.items, TRUE), ", ") \o "}"
    ELSE v.s

ReprItems(xs, keyed) ==
    IF Len(xs) = 0 THEN <<>>
    ELSE <<(IF keyed THEN "'" \o xs[1].k \o "': " ELSE "") \o PyRepr(xs[1].v)>>
         \o ReprItems(Tail(xs), keyed)

\* f"{value}" of a decoded value: a str is interpolated without quotes
PyStr(v) == IF v.t = "str" THEN v.s ELSE PyRepr(v)

(***************************************************************************)
(* Program constants.                                                      *)
(***************************************************************************)
\* the environment variables read at import time, in the order read
RequiredKeys ==
    <<"GCP_SA_KEY", "INPUT_FOLDER_ID", "OUTPUT_FOLDER_ID",
      "EXCEL_PASSWORD_1", "GAS_WEB_APP_URL", "GAS_SECRET_KEY">>

KeySet == {RequiredKeys[i] : i \in 1..Len(RequiredKeys)}

\* ASCII gloss of the Japanese prefix literal
FILE_PREFIX == "Todai-"

\* ASCII gloss of the sheet name literal
TARGET_SHEET_NAME == "H3(2026)"

\* response.text[:1000]
SNIPPET_LEN == 1000

\* len(GAS_SECRET_KEY) > 4, GAS_SECRET_KEY[-4:]
KEY_TAIL == 4

(***************************************************************************)
(* Inputs: the environment, the Drive folder, the workbook, the clock and  *)
(* the relay's answers.                                                    *)
(***************************************************************************)
Secrets == {"k9", "abcd", "s3cr3tKEY"}

FullEnv(secret, sa_key) ==
    [k \in KeySet |->
        CASE k = "GCP_SA_KEY" -> sa_key
          [] k = "INPUT_FOLDER_ID" -> "in-folder"
          [] k = "OUTPUT_FOLDER_ID" -> "out-folder"
          [] k = "EXCEL_PASSWORD_1" -> "pw1"
          [] k = "GAS_WEB_APP_URL" -> "https://gas/exec"
          [] OTHER -> secret]

Restrict(f, S) == [k \in S |-> f[k]]

Envs ==
    {FullEnv(sec, "{}") : sec \in Secrets}
    \cup {FullEnv("s3cr3tKEY", "not json")}
    \cup {Restrict(FullEnv("s3cr3tKEY", "{}"), S) : S \in (SUBSET KeySet) \ {KeySet}}
    \cup {Restrict(FullEnv("s3cr3tKEY", "not json"), KeySet \ {"GAS_WEB_APP_URL"})}

NameParts == {".xlsx", "_v2", ".xlsx.bak"}

RECURSIVE NamesOf(_)
\* the names made of the prefix and at most n parts
NamesOf(n) ==
    IF n = 0 THEN {FILE_PREFIX}
    ELSE NamesOf(n - 1) \cup {nm \o part : nm \in NamesOf(n - 1), part \in NameParts}

FileNames == NamesOf(MaxNameParts)

\* files().list(pageSize=1) answers: no file, or the first file by name
\* descending; nchunks is the file's size in download chunks
ListResults ==
    {<<>>} \cup {<<[id |-> "id1", name |-> nm, nchunks |-> c]>> :
                    nm \in FileNames, c \in 1..MaxChunks}

RowAt(i) == IF i % 2 = 1 THEN <<"Sato", "a,b">> ELSE <<"Abe", "say \"hi\"">>

\* a parsed sheet: the header row as columns, the records as rows
Tables ==
    {[columns |-> <<>>, rows |-> <<>>]}
    \cup {[columns |-> <<"name", "note">>, rows |-> [i \in 1..n |-> RowAt(i)]] :
             n \in 0..MaxRows}

SomeTable == [columns |-> <<"name", "note">>, rows |-> <<RowAt(1)>>]

\* a downloaded file: kind "encrypted" is an OOXML document encrypted with
\* `password`; wrongPwMsg is the text of the exception the libraries raise
\* when it is opened with another password
Buffers ==
    {[kind |-> "unsupported", password |-> "", wrongPwMsg |-> "",
      sheets |-> [n \in {TARGET_SHEET_NAME} |-> SomeTable]]}
    \cup {[kind |-> "encrypted", password |-> "pw1", wrongPwMsg |-> "",
           sheets |-> [n \in {TARGET_SHEET_NAME} |-> t]] : t \in Tables}
    \cup {[kind |-> "encrypted", password |-> "pw1", wrongPwMsg |-> "",
           sheets |-> [n \in {"Sheet1"} |-> SomeTable]]}
    \cup {[kind |-> "encrypted", password |-> "old-pw", wrongPwMsg |-> m,
           sheets |-> [n \in {TARGET_SHEET_NAME} |-> SomeTable]] :
             m \in {"Decryption failed", "File is not a zip file"}}

Dates ==
    {[year |-> 2025, month |-> 6, day |-> 1],
     [year |-> 1999, month |-> 12, day |-> 31],
     [year |-> 2026, month |-> 11, day |-> 1]}

RECURSIVE Repeat(_, _)
Repeat(s, n) == IF n = 0 THEN "" ELSE s \o Repeat(s, n - 1)

LongHtml == "<html>" \o Repeat("<p>Sign in</p>", 80) \o "</html>"

Bodies ==
    {"{\"status\":\"success\",\"fileId\":\"abc123\",\"fileUrl\":\"https://x/abc123\"}",
     "{\"status\":\"error\",\"message\":\"Unauthorized\"}",
     "{\"fileId\":\"abc123\"}",
     "{\"status\":null}",
     "[\"success\"]",
     "\"success\"",
     "12",
     "null",
     "",
     "<html>Sign in</html>",
     LongHtml}

StatusCodes == {101, 200, 201, 304, 401, 404, 500}

\* what requests.post does: raises, or returns a Response
PostResults ==
    {[exc |-> e, status_code |-> 0, text |-> ""] : e \in {"ConnectionError", "Timeout"}}
    \cup {[exc |-> "", status_code |-> c, text |-> b] : c \in StatusCodes, b \in Bodies}

(***************************************************************************)
(* Module-level configuration loading.                                     *)
(***************************************************************************)
RECURSIVE FirstAbsent(_, _)
FirstAbsent(e, i) ==
    IF i > Len(RequiredKeys) THEN ""
    ELSE IF RequiredKeys[i] \notin DOMAIN e THEN RequiredKeys[i]
    ELSE FirstAbsent(e, i + 1)

\* as MissingKey, with GAS_SECRET_KEY read by os.environ.get
MissingKeyLenient(e) ==
    IF FirstAbsent(e, 1) = "GAS_SECRET_KEY" THEN "" ELSE FirstAbsent(e, 1)

\* the key whose os.environ[...] raises KeyError, "" when none does
MissingKey(e) == FirstAbsent(e, 1)

\* os.environ[k] of a key that is set
Getenv(e, k) == IF k \in DOMAIN e THEN e[k] ELSE ""

\* outcome of the try block: GCP_SA_KEY is read and decoded before the
\* other keys are read, and only KeyError is caught
ConfigResult(e) ==
    IF "GCP_SA_KEY" \notin DOMAIN e THEN "KeyError"
    ELSE IF ~JsonLoads(e["GCP_SA_KEY"]).ok THEN "JSONDecodeError"
    ELSE IF MissingKey(e) # "" THEN "KeyError"
    ELSE "ok"

(***************************************************************************)
(* The reader, the naming and the encoder.                                 *)
(***************************************************************************)
\* pd.DataFrame()
EmptyDataFrame == [columns |-> <<>>, rows |-> <<>>]

\* as DfEmpty, looking at the columns only
DfEmptyColumnsOnly(d) == Len(d.columns) = 0

\* df.empty: some axis has length 0
DfEmpty(d) == Len(d.columns) = 0 \/ Len(d.rows) = 0

\* the exception raised inside the try block, "" when none is
ReaderException(buf, sheet_name, password) ==
    IF buf.kind # "encrypted" THEN "Unsupported file format"
    ELSE IF password # buf.password THEN buf.wrongPwMsg
    ELSE IF sheet_name \notin DOMAIN buf.sheets
         THEN "Worksheet named '" \o sheet_name \o "' not found"
    ELSE ""

\* returns the DataFrame and the lines printed
load_locked_excel(buf, sheet_name, password) ==
    LET e == ReaderException(buf, sheet_name, password) IN
    IF e # ""
    THEN [df |-> EmptyDataFrame,
          out |-> <<"Error loading the locked Excel file: " \o e>>
                  \o (IF Contains(e, "Decryption failed") \/ Contains(e, "bad decrypt")
                      THEN <<">>> wrong password or unsupported file format">>
                      ELSE <<>>)]
    ELSE [df |-> buf.sheets[sheet_name], out |-> <<>>]

\* today.strftime("%y%m%d"), today being datetime.date.today()
output_secure_date(d) ==
    TwoDigits(d.year % 100) \o TwoDigits(d.month) \o TwoDigits(d.day)

\* f"secure-{output_secure_date()}_{file_name.replace('.xlsx', '')}.csv"
OutputFilename(name, d) ==
    "secure-" \o output_secure_date(d) \o "_" \o Replace(name, ".xlsx", "") \o ".csv"

\* csv.QUOTE_MINIMAL
CsvField(x) ==
    IF Contains(x, ",") \/ Contains(x, "\"") \/ Contains(x, "\n")
    THEN "\"" \o Replace(x, "\"", "\"\"") \o "\""
    ELSE x

CsvLine(cells) == Join([i \in 1..Len(cells) |-> CsvField(cells[i])], ",") \o "\n"

RECURSIVE CsvLines(_)
CsvLines(rows) == IF Len(rows) = 0 THEN "" ELSE CsvLine(rows[1]) \o CsvLines(Tail(rows))

\* df.to_csv(index=False, encoding='utf-8-sig') without a path: the text is
\* returned as a str, so the encoding (and its byte-order mark) plays no part
to_csv(d) == CsvLine(d.columns) \o CsvLines(d.rows)

(***************************************************************************)
(* The relay call: lines 160-198 of main.                                  *)
(***************************************************************************)
\* Response.raise_for_status(): HTTPError for 400 <= status_code < 600
RaisesForStatus(code) == 400 <= code /\ code < 600

\* bool(response) is response.ok, which is "raise_for_status() does not
\* raise"; bool(None) is False
Truthy(resp) == resp.exc = "" /\ ~RaisesForStatus(resp.status_code)

\* the classes derived from requests.exceptions.RequestException
IsRequestException(exc) ==
    exc \in {"ConnectionError", "Timeout", "HTTPError", "JSONDecodeError"}

\* as HandlerFor, with the two except clauses in the other order
HandlerForSwapped(exc) ==
    IF IsRequestException(exc) THEN "RequestException"
    ELSE IF exc = "JSONDecodeError" THEN "JSONDecodeError"
    ELSE "unhandled"

\* the except clause that catches exc: the clauses are tried in source order
HandlerFor(exc) ==
    IF exc = "JSONDecodeError" THEN "JSONDecodeError"
    ELSE IF IsRequestException(exc) THEN "RequestException"
    ELSE "unhandled"

\* the exception the try block raises for a result of requests.post, ""
\* when it raises none
TryException(res) ==
    IF res.exc # "" THEN res.exc
    ELSE IF RaisesForStatus(res.status_code) THEN "HTTPError"
    ELSE IF ~JsonLoads(res.text).ok THEN "JSONDecodeError"
    ELSE IF ~HasGet(JsonLoads(res.text).val) THEN "AttributeError"
    ELSE ""

\* str(e)
ExcText(exc, res, url) ==
    IF exc = "HTTPError"
    THEN ToString(res.status_code)
         \o (IF res.status_code < 500 THEN " Client Error" ELSE " Server Error")
         \o " for url: " \o url
    ELSE IF exc = "JSONDecodeError" THEN "Expecting value: line 1 column 1 (char 0)"
    ELSE exc \o " for url: " \o url

\* e.response: the Response for an HTTPError, None otherwise
ExcResponse(exc, res) ==
    IF exc = "HTTPError" THEN res ELSE [exc |-> "None", status_code |-> 0, text |-> ""]

\* the branch that ends the call
Outcome(res) ==
    LET exc == TryException(res)
        h == HandlerFor(exc)
    IN IF exc = ""
       THEN IF DictGet(JsonLoads(res.text).val, "status") = JStr("success")
            THEN "Success" ELSE "RemoteRejected"
       ELSE IF h = "JSONDecodeError" THEN "UnexpectedResponseShape"
       ELSE IF h = "RequestException"
            THEN IF exc = "HTTPError" THEN "HttpStatus" ELSE "Transport"
       ELSE "Crashed"

\* the lines printed by the branch
DeliveryOutput(res, url) ==
    LET exc == TryException(res)
        h == HandlerFor(exc)
        js == JsonLoads(res.text).val
    IN IF exc = ""
       THEN IF DictGet(js, "status") = JStr("success")
            THEN <<"--- upload succeeded ---",
                   "  file id: " \o PyStr(DictGet(js, "fileId")),
                   "  file url: " \o PyStr(DictGet(js, "fileUrl"))>>
            ELSE <<"--- upload failed (GAS reported an error) ---",
                   "  message: " \o PyStr(DictGet(js, "message")),
                   "  details from GAS: " \o PyStr(js)>>
       ELSE IF h = "JSONDecodeError"
       THEN <<"--- fatal: the response from GAS was not JSON ---",
              "  URL: " \o url,
              "  error: " \o ExcText(exc, res, url),
              "  raw response: " \o SliceTo(res.text, SNIPPET_LEN) \o "...",
              "  >>> check the GAS deployment access setting",
              "  >>> an HTML login page means the deployment is wrong">>
       ELSE IF h = "RequestException"
       THEN <<"--- fatal: calling the GAS web app failed ---",
              "  URL: " \o url,
              "  error: " \o ExcText(exc, res, url)>>
            \o (IF Truthy(ExcResponse(exc, res))
                THEN <<"  status code: " \o ToString(ExcResponse(exc, res).status_code),
                       "  response: "
                          \o SliceTo(ExcResponse(exc, res).text, SNIPPET_LEN) \o "...">>
                ELSE <<>>)
            \o <<"  >>> check the GAS URL, the network or the GAS timeout">>
       ELSE <<"Traceback (most recent call last): " \o exc>>

(***************************************************************************)
(* State machine.  pc is the position of the process: "start" before the   *)
(* module-level try block, then main's steps, "exited" after the process   *)
(* has ended with exitCode.  trace lists the calls made so far to the      *)
(* collaborators (Drive list, Drive download, reader, encoder, relay);     *)
(* stdout lists the lines printed.  outcome names the branch that ended    *)
(* the run.                                                                *)
(***************************************************************************)
NoBuffer == [kind |-> "none", password |-> "", wrongPwMsg |-> "",
             sheets |-> [n \in {} |-> SomeTable]]

NoDate == [year |-> 0, month |-> 0, day |-> 0]

NoRequest == [url |-> "", headers |-> [h \in {} |-> ""],
              json |-> [folderId |-> "", filename |-> "", csvData |-> ""]]

NoResult == [exc |-> "None", status_code |-> 0, text |-> ""]

Init ==
    /\ pc = "start"
    /\ env \in Envs
    /\ config = [k \in KeySet |-> ""]
    /\ items = <<>>
    /\ file_name = ""
    /\ chunks = 0
    /\ buffer = NoBuffer
    /\ df = EmptyDataFrame
    /\ today = NoDate
    /\ output_filename = ""
    /\ csv_data_string = ""
    /\ request = NoRequest
    /\ result = NoResult
    /\ outcome = "Running"
    /\ stdout = <<>>
    /\ trace = <<>>
    /\ exitCode = -1

\* lines 14-34: read the six variables; exit(1) on KeyError; any other
\* exception is unhandled and ends the interpreter with status 1
LoadConfig ==
    /\ pc = "start"
    /\ LET r == ConfigResult(env) IN
       IF r = "ok"
       THEN /\ config' = [k \in KeySet |-> Getenv(env, k)]
            /\ pc' = "main"
            /\ UNCHANGED <<stdout, outcome, exitCode>>
       ELSE /\ stdout' = IF r = "KeyError"
                         THEN <<"error: required environment variable is not set: '"
                                   \o MissingKey(env) \o "'",
                                "check the GitHub Secrets/Variables",
                                "'GCP_SA_KEY', 'INPUT_FOLDER_ID', 'OUTPUT_FOLDER_ID', 'EXCEL_PASSWORD_1', 'GAS_WEB_APP_URL', 'GAS_SECRET_KEY'">>
                         ELSE <<"Traceback (most recent call last): " \o r>>
            /\ outcome' = IF r = "KeyError" THEN "ConfigurationMissing" ELSE "Crashed"
            /\ exitCode' = 1
            /\ pc' = "exited"
            /\ UNCHANGED config
    /\ UNCHANGED <<env, items, file_name, chunks, buffer, df, today, output_filename,
                   csv_data_string, request, result, trace>>

\* `if not items`
NoItems(its) == Len(its) = 0

\* lines 71-109: authenticate, list the folder, stop when nothing matches
Locate ==
    /\ pc = "main"
    /\ trace' = Append(trace, "files.list")
    /\ \E raised \in BOOLEAN, its \in ListResults :
         LET searching == <<"authenticating to Google Drive (download)...",
                            "in input folder '" \o config["INPUT_FOLDER_ID"] \o "'",
                            "searching the newest file with prefix '" \o FILE_PREFIX \o "'...">>
         IN
         IF raised
         THEN \* execute() raised HttpError: nothing in main catches it
              /\ its = <<>>
              /\ stdout' = stdout \o searching
                             \o <<"Traceback (most recent call last): HttpError">>
              /\ outcome' = "Crashed"
              /\ exitCode' = 1
              /\ pc' = "exited"
              /\ UNCHANGED <<items, file_name>>
         ELSE /\ items' = its
              /\ IF NoItems(its)
                 THEN /\ stdout' = stdout \o searching \o <<"no file was found in the folder">>
                      /\ outcome' = "SourceNotFound"
                      /\ exitCode' = 0
                      /\ pc' = "exited"
                      /\ UNCHANGED file_name
                 ELSE /\ file_name' = its[1].name
                      /\ stdout' = stdout \o searching
                                     \o <<"newest file found: '" \o its[1].name
                                            \o "' (ID: " \o its[1].id \o ")">>
                      /\ pc' = "download"
                      /\ UNCHANGED <<outcome, exitCode>>
    /\ UNCHANGED <<env, config, chunks, buffer, df, today, output_filename,
                   csv_data_string, request, result>>

\* lines 112-120: one iteration of the next_chunk loop; the last one leaves
\* the whole file in fh
DownloadChunk ==
    /\ pc = "download"
    /\ trace' = Append(trace, "get_media")
    /\ \E raised \in BOOLEAN, buf \in Buffers :
         IF raised
         THEN /\ buf = CHOOSE b \in Buffers : TRUE
              /\ stdout' = Append(stdout, "Traceback (most recent call last): HttpError")
              /\ outcome' = "Crashed"
              /\ exitCode' = 1
              /\ pc' = "exited"
              /\ UNCHANGED <<chunks, buffer>>
         ELSE /\ chunks' = chunks + 1
              /\ stdout' = Append(stdout, "downloading "
                                   \o ToString(((chunks + 1) * 100) \div items[1].nchunks) \o "%")
              /\ IF chunks + 1 = items[1].nchunks
                 THEN buffer' = buf /\ pc' = "read"
                 ELSE /\ buf = CHOOSE b \in Buffers : TRUE
                      /\ UNCHANGED <<buffer, pc>>
              /\ UNCHANGED <<outcome, exitCode>>
    /\ UNCHANGED <<env, config, items, file_name, df, today, output_filename,
                   csv_data_string, request, result>>

\* lines 122-131: print the key, read the sheet, stop on an empty frame
ReadWorkbook ==
    /\ pc = "read"
    /\ trace' = Append(trace, "load_locked_excel")
    /\ LET r == load_locked_excel(buffer, TARGET_SHEET_NAME, config["EXCEL_PASSWORD_1"])
           printed == <<"GAS SECRET_KEY: " \o config["GAS_SECRET_KEY"],
                        "reading the Excel data with pandas...">> \o r.out
       IN /\ df' = r.df
          /\ IF DfEmpty(r.df)
             THEN /\ stdout' = stdout \o printed
                                 \o <<"reading the Excel data failed or the data is empty; stopping">>
                  /\ outcome' = "ReaderFailedOrEmpty"
                  /\ exitCode' = 0
                  /\ pc' = "exited"
             ELSE /\ stdout' = stdout \o printed \o <<"Excel data read">>
                  /\ pc' = "encode"
                  /\ UNCHANGED <<outcome, exitCode>>
    /\ UNCHANGED <<env, config, items, file_name, chunks, buffer, today, output_filename,
                   csv_data_string, request, result>>

\* the line printed about the key that is about to be sent
KeyDebugLine(key) ==
    IF Len(key) > KEY_TAIL
    THEN "  -> debug: API key to send: '..." \o SliceLast(key, KEY_TAIL) \o "'"
    ELSE "  -> debug: API key to send: (too short or empty)"

\* lines 133-158: name the output, encode the frame, build the request
Encode ==
    /\ pc = "encode"
    /\ trace' = Append(trace, "to_csv")
    /\ \E d \in Dates :
         /\ today' = d
         /\ output_filename' = OutputFilename(file_name, d)
         /\ csv_data_string' = to_csv(df)
         /\ stdout' = stdout \o
              <<"generated the CSV data of '" \o OutputFilename(file_name, d) \o "' in memory",
                "uploading to the Google Apps Script web app...",
                "  -> folder id: " \o config["OUTPUT_FOLDER_ID"],
                "  -> file name: " \o OutputFilename(file_name, d),
                KeyDebugLine(config["GAS_SECRET_KEY"])>>
         /\ request' = [url |-> config["GAS_WEB_APP_URL"],
                        headers |-> [h \in {"X-Api-Key"} |-> config["GAS_SECRET_KEY"]],
                        json |-> [folderId |-> config["OUTPUT_FOLDER_ID"],
                                  filename |-> OutputFilename(file_name, d),
                                  csvData |-> to_csv(df)]]
    /\ pc' = "post"
    /\ UNCHANGED <<env, config, items, file_name, chunks, buffer, df, result, outcome,
                   exitCode>>

\* lines 160-198 and the return from main: POST, classify the answer, print;
\* main returns (status 0) unless an exception no clause catches escapes it
Deliver ==
    /\ pc = "post"
    /\ trace' = Append(trace, "requests.post")
    /\ \E res \in PostResults :
         /\ result' = res
         /\ outcome' = Outcome(res)
         /\ stdout' = stdout \o DeliveryOutput(res, request.url)
         /\ exitCode' = IF HandlerFor(TryException(res)) = "unhandled" /\ TryException(res) # ""
                        THEN 1 ELSE 0
    /\ pc' = "exited"
    /\ UNCHANGED <<env, config, items, file_name, chunks, buffer, df, today,
                   output_filename, csv_data_string, request>>

Next ==
    \/ LoadConfig
    \/ Locate
    \/ DownloadChunk
    \/ ReadWorkbook
    \/ Encode
    \/ Deliver

Spec == Init /\ [][Next]_vars

(***************************************************************************)
(* Properties.                                                             *)
(***************************************************************************)
InTrace(call) == \E i \in DOMAIN trace : trace[i] = call

Printed(text) == \E i \in DOMAIN stdout : Contains(stdout[i], text)

Is2xx(code) == 200 <= code /\ code <= 299

\* s without its final suffix ext, when it ends with ext
StripSuffix(s, ext) ==
    IF EndsWith(s, ext) THEN SubSeq(s, 1, Len(s) - Len(ext)) ELSE s

\* the value decoded from the response is an object whose "status" is "success"
SaysSuccess(text) ==
    /\ JsonLoads(text).ok
    /\ JsonLoads(text).val.t = "dict"
    /\ \E i \in DOMAIN JsonLoads(text).val.items :
          /\ JsonLoads(text).val.items[i].k = "status"
          /\ JsonLoads(text).val.items[i].v = JStr("success")
          /\ \A j \in DOMAIN JsonLoads(text).val.items :
                j > i => JsonLoads(text).val.items[j].k # "status"

\* C1: the process exit code is 0 only when the run ended in Done (the relay
\* reported success); every run that ended in a failure has a non-zero exit
\* code.
C1_ExitCodeZeroOnlyWhenDone ==
    pc = "exited" => (exitCode = 0 => outcome = "Success")

\* C2: the POST's outcome is classified in strict order: transport failure,
\* then any non-2xx status (HttpStatus), then a body that is not JSON
\* (UnexpectedResponseShape), then RemoteRejected or Success by the status
\* field; a non-2xx response is never UnexpectedResponseShape, RemoteRejected
\* or Success.
C2_StrictClassificationOrder ==
    (pc = "exited" /\ InTrace("requests.post")) =>
        outcome = IF result.exc # "" THEN "Transport"
                  ELSE IF ~Is2xx(result.status_code) THEN "HttpStatus"
                  ELSE IF ~JsonLoads(result.text).ok THEN "UnexpectedResponseShape"
                  ELSE IF SaysSuccess(result.text) THEN "Success"
                  ELSE "RemoteRejected"

\* C3: an HTTP 200 answer whose body is not JSON ends the delivery in
\* UnexpectedResponseShape, with the body's first 1000 characters printed,
\* and main returns normally (no exception escapes it).
C3_NonJson200IsUnexpectedShape ==
    (pc = "exited" /\ result.exc = "" /\ result.status_code = 200
        /\ ~JsonLoads(result.text).ok) =>
        /\ outcome = "UnexpectedResponseShape"
        /\ exitCode = 0
        /\ Printed("the response from GAS was not JSON")
        /\ ~Printed("Traceback")

C3_Witness ==
    /\ pc = "exited"
    /\ result.exc = ""
    /\ result.status_code = 200
    /\ result.text = "<html>Sign in</html>"
    /\ outcome = "UnexpectedResponseShape"

\* C4: for a wrong password the reader's result differs from its result for
\* a decrypted sheet with zero rows and from its result for a missing sheet,
\* and it is not an empty dataset.
C4_WrongPasswordDistinguishable ==
    (InTrace("load_locked_excel") /\ buffer.kind = "encrypted"
        /\ buffer.password # config["EXCEL_PASSWORD_1"]) =>
        /\ df # [columns |-> <<>>, rows |-> <<>>]
        /\ \A b \in Buffers :
              (/\ b.kind = "encrypted"
               /\ b.password = config["EXCEL_PASSWORD_1"]
               /\ \/ TARGET_SHEET_NAME \notin DOMAIN b.sheets
                  \/ Len(b.sheets[TARGET_SHEET_NAME].rows) = 0)
              => load_locked_excel(b, TARGET_SHEET_NAME, config["EXCEL_PASSWORD_1"]).df # df

\* C5: once a stage fails no later stage runs: no items means no download and
\* no POST; a failed read or a frame with no rows means no encoding and no
\* POST; a POST is sent only after list, the complete download, the read and
\* the encoding have succeeded, in that order.
C5_TerminalOnFirstFailure ==
    /\ (InTrace("files.list") /\ Len(items) = 0) =>
          (pc = "exited" /\ trace = <<"files.list">>)
    /\ (InTrace("load_locked_excel") /\ (Len(df.rows) = 0 \/ Len(df.columns) = 0)) =>
          (pc = "exited" /\ ~InTrace("to_csv") /\ ~InTrace("requests.post"))
    /\ InTrace("requests.post") =>
          /\ Len(items) = 1
          /\ chunks = items[1].nchunks
          /\ ReaderException(buffer, TARGET_SHEET_NAME, config["EXCEL_PASSWORD_1"]) = ""
          /\ Len(df.rows) > 0
          /\ request.json.csvData = csv_data_string
          /\ trace = <<"files.list">> \o [i \in 1..chunks |-> "get_media"]
                       \o <<"load_locked_excel", "to_csv", "requests.post">>

C5_Witness ==
    /\ pc = "exited"
    /\ InTrace("load_locked_excel")
    /\ Len(df.columns) > 0
    /\ Len(df.rows) = 0
    /\ outcome = "ReaderFailedOrEmpty"

\* C6: when any of the six required variables is absent the process ends
\* with a non-zero exit code before any pipeline step: nothing is listed,
\* downloaded or posted.
C6_MissingConfigIsFatalAtStartup ==
    (pc # "start" /\ KeySet \ DOMAIN env # {}) =>
        /\ pc = "exited"
        /\ exitCode # 0
        /\ trace = <<>>
        /\ request = NoRequest

C6_Witness ==
    /\ pc = "exited"
    /\ DOMAIN env = KeySet \ {"GAS_SECRET_KEY"}
    /\ exitCode = 1
    /\ outcome = "ConfigurationMissing"

\* C7: the output filename is "secure-" + YYMMDD(run date) + "_" + the source
\* name with only its trailing ".xlsx" removed + ".csv".
C7_OnlyTrailingExtensionStripped ==
    InTrace("to_csv") =>
        output_filename = "secure-" \o TwoDigits(today.year % 100) \o TwoDigits(today.month)
                            \o TwoDigits(today.day) \o "_"
                            \o StripSuffix(file_name, ".xlsx") \o ".csv"

\* C8: a 2xx answer whose body is JSON of any kind ends the delivery in
\* Success when its status field is "success" and in RemoteRejected
\* otherwise, and no exception escapes main.
C8_AnyJsonIsSuccessOrRejected ==
    (pc = "exited" /\ result.exc = "" /\ Is2xx(result.status_code)
        /\ JsonLoads(result.text).ok) =>
        /\ outcome = IF SaysSuccess(result.text) THEN "Success" ELSE "RemoteRejected"
        /\ exitCode = 0
        /\ ~Printed("Traceback")

\* C9: for a 4xx or 5xx answer the output contains the status code and the
\* response body cut to its first 1000 characters.
C9_HttpErrorContextPrinted ==
    (pc = "exited" /\ result.exc = "" /\ result.status_code >= 400
        /\ result.status_code <= 599) =>
        /\ Printed(ToString(result.status_code))
        /\ Printed(SliceTo(result.text, SNIPPET_LEN))

\* C10: the shared secret is never a field of the JSON request body, and no
\* printed line contains more of it than its last four characters.
C10_SecretOnlyInHeader ==
    LET key == config["GAS_SECRET_KEY"] IN
    /\ InTrace("to_csv") =>
          /\ request.headers["X-Api-Key"] = key
          /\ \A f \in DOMAIN request.json : request.json[f] # key
    /\ Len(key) > KEY_TAIL =>
          \A i \in 1..(Len(key) - KEY_TAIL) :
             ~Printed(SubSeq(key, i, i + KEY_TAIL))

====
